---- MODULE Spec2Model ----
(***************************************************************************)
(* Request lifecycle of the two Flask services of the repository:          *)
(*   docker/marker-api/server.py          /convert, /convert-path          *)
(*   docker/document-converter/server.py  /convert-mupdf, /extract-metadata*)
(* A request slot is one worker thread; it carries one request at a time   *)
(* through the decorator, the validation, the temp file, the library call  *)
(* and the response.  The filesystem fs is the only state shared between   *)
(* requests.                                                               *)
(***************************************************************************)
EXTENDS Integers, Sequences, FiniteSets, TLC

\* ------------------------------------------------------------------ bounds
MaxReq == 2
MaxTemp == 2

Reqs == 1..MaxReq

\* ------------------------------------------------------------------ text
\* File names and paths are sequences of one-character strings, so that
\* str.lower() and str.endswith() are computed and not assumed.
UpperAlpha == <<"A","B","C","D","E","F","G","H","I","J","K","L","M",
                "N","O","P","Q","R","S","T","U","V","W","X","Y","Z">>
LowerAlpha == <<"a","b","c","d","e","f","g","h","i","j","k","l","m",
                "n","o","p","q","r","s","t","u","v","w","x","y","z">>

LowerChar(c) ==
    IF \E i \in 1..Len(UpperAlpha) : UpperAlpha[i] = c
    THEN LowerAlpha[CHOOSE i \in 1..Len(UpperAlpha) : UpperAlpha[i] = c]
    ELSE c

lower(s) == [i \in 1..Len(s) |-> LowerChar(s[i])]

endswith(s, suf) ==
    /\ Len(s) >= Len(suf)
    /\ SubSeq(s, Len(s) - Len(suf) + 1, Len(s)) = suf

DotPdf == <<".", "p", "d", "f">>

\* the extension test without its dot: accepts a file named "pdf"
IsPdfName_nodot(s) == endswith(lower(s), <<"p", "d", "f">>)

\* `not x.lower().endswith('.pdf')` of every handler, negated
IsPdfName(s) == endswith(lower(s), DotPdf)

\* An error message: a literal followed by an interpolated path (f-string).
Text(lit) == [lit |-> lit, arg |-> <<>>]
FText(lit, arg) == [lit |-> lit, arg |-> arg]
TextEmpty(t) == t.lit = "" /\ t.arg = <<>>

\* ------------------------------------------------------------------ config
MarkerRoutes == {"/convert", "/convert-path"}
ConverterRoutes == {"/convert-mupdf", "/extract-metadata"}
UploadRoutes == {"/convert", "/convert-mupdf", "/extract-metadata"}
Routes == MarkerRoutes \cup ConverterRoutes

\* API_KEY of the service that owns the route (the defaults of os.environ.get)
API_KEY(rt) == IF rt \in MarkerRoutes THEN "marker_secret_key"
               ELSE "converter_secret_key"

\* request.headers.get('X-API-Key'): None when the header is absent
NoHeader == [present |-> FALSE, v |-> ""]
Header(v) == [present |-> TRUE, v |-> v]
Headers == {NoHeader, Header(""), Header("marker_secret_key"),
            Header("converter_secret_key")}

\* ------------------------------------------------------------------ inputs
NotesTxt == <<"n", ".", "t", "x", "t">>
APdf == <<"a", ".", "p", "d", "f">>
BPDF == <<"B", ".", "P", "D", "F">>
Pdf == <<"p", "d", "f">>
CallerDir == {APdf, BPDF, NotesTxt}
MissingPdf == <<"m", ".", "p", "d", "f">>
MissingTxt == <<"m", ".", "t", "x", "t">>

\* request.files: no 'file' part, or a part with a filename
NoFile == [present |-> FALSE, filename |-> <<>>]
File(fn) == [present |-> TRUE, filename |-> fn]
Files == {NoFile, File(<<>>), File(NotesTxt), File(Pdf), File(APdf), File(BPDF)}

\* tempfile.NamedTemporaryFile(suffix='.pdf') names
TempName(i) == <<"t", ToString(i)>> \o DotPdf
TempNames == {TempName(i) : i \in 1..MaxTemp}

\* ------------------------------------------------------------------ JSON
\* The `fields` form field is a string; it is modelled as its sequence of
\* JSON tokens, and json.loads as a parser of that sequence.
Tok(t, v) == [t |-> t, v |-> v]
LB == Tok("[", "")
RB == Tok("]", "")
LBrace == Tok("{", "")
RBrace == Tok("}", "")
Comma == Tok(",", "")
S(v) == Tok("str", v)
N(v) == Tok("num", v)

\* Python values a parsed `fields` can be
PyNone == [t |-> "None", items |-> <<>>, s |-> ""]
PyStr(s) == [t |-> "str", items |-> <<>>, s |-> s]
PyInt(s) == [t |-> "int", items |-> <<>>, s |-> s]
PyList(items) == [t |-> "list", items |-> items, s |-> ""]
PyEmptyDict == [t |-> "dict", items |-> <<>>, s |-> ""]

IsScalarTok(k) == k.t \in {"str", "num"}

\* the inside of [ ... ]: empty, or scalars separated by commas
IsElements(mid) ==
    \/ mid = <<>>
    \/ /\ Len(mid) % 2 = 1
       /\ \A i \in 1..Len(mid) :
            IF i % 2 = 1 THEN IsScalarTok(mid[i]) ELSE mid[i] = Comma

Elements(mid) == [j \in 1..((Len(mid) + 1) \div 2) |-> mid[2 * j - 1].v]

\* json.loads: [ok |-> FALSE] stands for a raised JSONDecodeError
json_loads(toks) ==
    IF Len(toks) = 1 /\ toks[1].t = "str"
      THEN [ok |-> TRUE, val |-> PyStr(toks[1].v)]
    ELSE IF Len(toks) = 1 /\ toks[1].t = "num"
      THEN [ok |-> TRUE, val |-> PyInt(toks[1].v)]
    ELSE IF toks = <<LBrace, RBrace>>
      THEN [ok |-> TRUE, val |-> PyEmptyDict]
    ELSE IF /\ Len(toks) >= 2
            /\ toks[1] = LB
            /\ toks[Len(toks)] = RB
            /\ IsElements(SubSeq(toks, 2, Len(toks) - 1))
      THEN [ok |-> TRUE,
            val |-> PyList(IF Len(toks) = 2 THEN <<>>
                           ELSE Elements(SubSeq(toks, 2, Len(toks) - 1)))]
    ELSE [ok |-> FALSE, val |-> PyNone]

\* Python truthiness of such a value
Truthy(v) ==
    CASE v.t = "list" -> v.items # <<>>
      [] v.t = "str" -> v.s # ""
      [] v.t = "int" -> v.s # "0"
      [] OTHER -> FALSE

isinstance_list(v) == v.t = "list"

\* request.form.get('fields'): absent, or the string's tokens
NoField == [present |-> FALSE, toks |-> <<>>]
Field(toks) == [present |-> TRUE, toks |-> toks]
FieldInputs ==
    { NoField,
      Field(<<>>),
      Field(<<LB, RB>>),
      Field(<<LB, S("title"), Comma, S("pageCount"), RB>>),
      Field(<<LB, S("author"), Comma, S("bogus"), RB>>),
      Field(<<LB, S("title")>>),
      Field(<<LBrace, RBrace>>),
      Field(<<N("0")>>) }

\* ------------------------------------------------------------------ bodies
\* request.get_json() of /convert-path: None, a dict or a list
EmptyDict == [k \in {} |-> <<>>]
JNone == [kind |-> "None", d |-> EmptyDict, items |-> <<>>]
JDict(d) == [kind |-> "dict", d |-> d, items |-> <<>>]
JList(items) == [kind |-> "list", d |-> EmptyDict, items |-> items]

PathInputs == {APdf, BPDF, NotesTxt, MissingPdf, MissingTxt}
Bodies ==
    {JNone, JDict(EmptyDict), JDict([other |-> APdf]), JList(<<"path">>)}
      \cup {JDict([path |-> p]) : p \in PathInputs}

\* `not data`
data_falsy(data) ==
    \/ data.kind = "None"
    \/ data.kind = "dict" /\ DOMAIN data.d = {}
    \/ data.kind = "list" /\ data.items = <<>>

\* `'path' in data`: a key of a dict, an element of a list
path_in(data) ==
    \/ data.kind = "dict" /\ "path" \in DOMAIN data.d
    \/ data.kind = "list" /\ \E i \in 1..Len(data.items) : data.items[i] = "path"

\* ------------------------------------------------------------------ library
\* str(e) of the exceptions the wrapped libraries raise; AssertionError()
\* and the like have the empty message
ExcMsgs == {"", "cannot open broken document"}
Markdowns == {"", "# Title"}

\* fitz documents: doc.metadata is None or a dict, doc.page_count an int
Docs ==
    { [isNone |-> TRUE, d |-> EmptyDict, page_count |-> 0],
      [isNone |-> FALSE, d |-> [title |-> "Report", format |-> "PDF 1.7"],
       page_count |-> 3] }

DefaultKeys == {"title", "author", "subject", "keywords", "creator",
                "producer", "creationDate", "modDate", "pageCount", "format"}

\* ------------------------------------------------------------------ state
VARIABLES
    pc,        \* where each request slot stands in its handler
    req,       \* the request a slot is handling (headers, files, form, json)
    loc,       \* the handler's local variables
    resp,      \* the response returned
    fs,        \* the files that exist
    calls,     \* times the wrapped library was invoked for the request
    unlinks,   \* times os.unlink was called for the request
    created,   \* temp files NamedTemporaryFile created for the request
    docOpen    \* whether the request holds an open fitz document

vars == <<pc, req, loc, resp, fs, calls, unlinks, created, docOpen>>

Terminal == {"RESPONDED", "ERROR_RESPONDED"}
InFlight == {"RECEIVED", "AUTHORIZED", "VALIDATED", "CREATED", "STORED",
             "OPENED", "CONVERTED"}

NoRequest == [route |-> "", key |-> NoHeader, file |-> NoFile,
              fields |-> NoField, json |-> JNone]
NoLocals == [tmp |-> <<>>, bound |-> FALSE, rf |-> PyNone,
             result |-> [t |-> "unset"]]
NoResponse == [status |-> 0, json |-> FALSE, body |-> [pending |-> TRUE]]

Init ==
    /\ pc = [r \in Reqs |-> "idle"]
    /\ req = [r \in Reqs |-> NoRequest]
    /\ loc = [r \in Reqs |-> NoLocals]
    /\ resp = [r \in Reqs |-> NoResponse]
    /\ fs = CallerDir
    /\ calls = [r \in Reqs |-> 0]
    /\ unlinks = [r \in Reqs |-> 0]
    /\ created = [r \in Reqs |-> {}]
    /\ docOpen = [r \in Reqs |-> FALSE]

\* the requests a client can send to a route
RequestsTo(rt) ==
    IF rt = "/convert-path"
    THEN {[route |-> rt, key |-> k, file |-> NoFile, fields |-> NoField,
           json |-> b] : k \in Headers, b \in Bodies}
    ELSE IF rt = "/extract-metadata"
    THEN {[route |-> rt, key |-> k, file |-> f, fields |-> fl,
           json |-> JNone] : k \in Headers, f \in Files, fl \in FieldInputs}
    ELSE {[route |-> rt, key |-> k, file |-> f, fields |-> NoField,
           json |-> JNone] : k \in Headers, f \in Files}

\* jsonify(body), status
Respond(r, status, body) ==
    /\ resp' = [resp EXCEPT ![r] = [status |-> status, json |-> TRUE,
                                    body |-> body]]
    /\ pc' = [pc EXCEPT ![r] = IF status = 200 THEN "RESPONDED"
                               ELSE "ERROR_RESPONDED"]

\* an exception that leaves the view function: Flask answers 500 itself
Unhandled(r) ==
    /\ resp' = [resp EXCEPT ![r] =
                 [status |-> 500, json |-> FALSE,
                  body |-> [html |-> "Internal Server Error"]]]
    /\ pc' = [pc EXCEPT ![r] = "ERROR_RESPONDED"]

\* A worker thread takes the next request: everything request-scoped is new.
Receive(r, q) ==
    /\ pc[r] \in {"idle"} \cup Terminal
    /\ pc' = [pc EXCEPT ![r] = "RECEIVED"]
    /\ req' = [req EXCEPT ![r] = q]
    /\ loc' = [loc EXCEPT ![r] = NoLocals]
    /\ resp' = [resp EXCEPT ![r] = NoResponse]
    /\ calls' = [calls EXCEPT ![r] = 0]
    /\ unlinks' = [unlinks EXCEPT ![r] = 0]
    /\ created' = [created EXCEPT ![r] = {}]
    /\ docOpen' = [docOpen EXCEPT ![r] = FALSE]
    /\ UNCHANGED fs

\* the key test with `and` in place of `or`: a wrong key passes
decorated_and(r) ==
    /\ pc[r] = "RECEIVED"
    /\ LET provided_key == req[r].key IN
       IF (~provided_key.present \/ provided_key.v = "")
            /\ provided_key.v # API_KEY(req[r].route)
       THEN Respond(r, 401, [error |-> Text("Invalid or missing API key")])
       ELSE /\ pc' = [pc EXCEPT ![r] = "AUTHORIZED"]
            /\ UNCHANGED resp
    /\ UNCHANGED <<req, loc, fs, calls, unlinks, created, docOpen>>

\* require_api_key.decorated
decorated(r) ==
    /\ pc[r] = "RECEIVED"
    /\ LET provided_key == req[r].key IN
       IF (~provided_key.present \/ provided_key.v = "")
            \/ provided_key.v # API_KEY(req[r].route)
       THEN Respond(r, 401, [error |-> Text("Invalid or missing API key")])
       ELSE /\ pc' = [pc EXCEPT ![r] = "AUTHORIZED"]
            /\ UNCHANGED resp
    /\ UNCHANGED <<req, loc, fs, calls, unlinks, created, docOpen>>

\* ------------------------------------------------------------------ uploads
\* The checks on request.files every upload handler starts with:
\* <<>> when they pass, else the message of the 400 response.
upload_error(file) ==
    IF ~file.present THEN <<"No file provided">>
    ELSE IF file.filename = <<>> THEN <<"No file selected">>
    ELSE IF ~IsPdfName(file.filename) THEN <<"Only PDF files are supported">>
    ELSE <<>>

\* extract_pdf_metadata: requested_fields after the json.loads block
requested_fields(fields) ==
    IF ~fields.present THEN PyNone
    ELSE IF fields.toks = <<>> THEN PyStr("")
    ELSE IF json_loads(fields.toks).ok THEN json_loads(fields.toks).val
    ELSE PyNone

\* convert_pdf, convert_pdf_mupdf, extract_pdf_metadata up to the try block
upload_validate(r) ==
    /\ pc[r] = "AUTHORIZED"
    /\ req[r].route \in UploadRoutes
    /\ LET err == upload_error(req[r].file) IN
       IF err # <<>>
       THEN /\ Respond(r, 400, [error |-> Text(err[1])])
            /\ UNCHANGED loc
       ELSE /\ pc' = [pc EXCEPT ![r] = "VALIDATED"]
            /\ loc' = [loc EXCEPT ![r].rf =
                         IF req[r].route = "/extract-metadata"
                         THEN requested_fields(req[r].fields) ELSE PyNone]
            /\ UNCHANGED resp
    /\ UNCHANGED <<req, fs, calls, unlinks, created, docOpen>>

\* The except block of an upload handler, entered with exception message e:
\* unlink input_path if it is bound and exists, then answer 500 with str(e).
except_block(r, e) ==
    /\ IF loc[r].bound /\ loc[r].tmp \in fs
       THEN /\ fs' = fs \ {loc[r].tmp}
            /\ unlinks' = [unlinks EXCEPT ![r] = @ + 1]
       ELSE UNCHANGED <<fs, unlinks>>
    /\ Respond(r, 500, [error |-> Text(e)])

\* a temp name taken without O_EXCL: a name in use can be handed out again
NamedTemporaryFile_any(r, n) ==
    /\ pc[r] = "VALIDATED"
    /\ req[r].route \in UploadRoutes
    /\ n \in TempNames
    /\ fs' = fs \cup {n}
    /\ created' = [created EXCEPT ![r] = @ \cup {n}]
    /\ loc' = [loc EXCEPT ![r].tmp = n]
    /\ pc' = [pc EXCEPT ![r] = "CREATED"]
    /\ UNCHANGED <<req, resp, calls, unlinks, docOpen>>

\* tempfile.NamedTemporaryFile(suffix='.pdf', delete=False): creates a file
\* under a name no existing file has (O_EXCL)
NamedTemporaryFile(r, n) ==
    /\ pc[r] = "VALIDATED"
    /\ req[r].route \in UploadRoutes
    /\ n \in TempNames \ fs
    /\ fs' = fs \cup {n}
    /\ created' = [created EXCEPT ![r] = @ \cup {n}]
    /\ loc' = [loc EXCEPT ![r].tmp = n]
    /\ pc' = [pc EXCEPT ![r] = "CREATED"]
    /\ UNCHANGED <<req, resp, calls, unlinks, docOpen>>

\* ... or raises (no usable name, no space): nothing was created
NamedTemporaryFile_raises(r, e) ==
    /\ pc[r] = "VALIDATED"
    /\ req[r].route \in UploadRoutes
    /\ except_block(r, e)
    /\ UNCHANGED <<req, loc, calls, created, docOpen>>

\* file.save(tmp_input.name); input_path = tmp_input.name
file_save(r) ==
    /\ pc[r] = "CREATED"
    /\ loc' = [loc EXCEPT ![r].bound = TRUE]
    /\ pc' = [pc EXCEPT ![r] = "STORED"]
    /\ UNCHANGED <<req, resp, fs, calls, unlinks, created, docOpen>>

\* file.save raises: input_path is never bound
file_save_raises(r, e) ==
    /\ pc[r] = "CREATED"
    /\ except_block(r, e)
    /\ UNCHANGED <<req, loc, calls, created, docOpen>>

\* converter(input_path) / pymupdf4llm.to_markdown(input_path) returns
to_markdown(r, m) ==
    /\ pc[r] = "STORED"
    /\ req[r].route \in {"/convert", "/convert-mupdf"}
    /\ calls' = [calls EXCEPT ![r] = @ + 1]
    /\ loc' = [loc EXCEPT ![r].result = [t |-> "str", v |-> m]]
    /\ pc' = [pc EXCEPT ![r] = "CONVERTED"]
    /\ UNCHANGED <<req, resp, fs, unlinks, created, docOpen>>

\* a failed conversion tried a second time before giving up
to_markdown_raises_retry(r, e) ==
    /\ pc[r] = "STORED"
    /\ req[r].route \in {"/convert", "/convert-mupdf"}
    /\ calls' = [calls EXCEPT ![r] = @ + 2]
    /\ except_block(r, e)
    /\ UNCHANGED <<req, loc, created, docOpen>>

\* ... or raises
to_markdown_raises(r, e) ==
    /\ pc[r] = "STORED"
    /\ req[r].route \in {"/convert", "/convert-mupdf"}
    /\ calls' = [calls EXCEPT ![r] = @ + 1]
    /\ except_block(r, e)
    /\ UNCHANGED <<req, loc, created, docOpen>>

\* doc = fitz.open(input_path)
fitz_open(r) ==
    /\ pc[r] = "STORED"
    /\ req[r].route = "/extract-metadata"
    /\ calls' = [calls EXCEPT ![r] = @ + 1]
    /\ docOpen' = [docOpen EXCEPT ![r] = TRUE]
    /\ pc' = [pc EXCEPT ![r] = "OPENED"]
    /\ UNCHANGED <<req, loc, resp, fs, unlinks, created>>

fitz_open_raises(r, e) ==
    /\ pc[r] = "STORED"
    /\ req[r].route = "/extract-metadata"
    /\ calls' = [calls EXCEPT ![r] = @ + 1]
    /\ except_block(r, e)
    /\ UNCHANGED <<req, loc, created, docOpen>>

\* pdf_metadata.get(k, '')
dict_get(d, k, default) == IF k \in DOMAIN d THEN d[k] ELSE default

\* all_metadata of a document: always the ten keys
all_metadata(doc) ==
    LET pdf_metadata == IF doc.isNone THEN EmptyDict ELSE doc.d IN
    [k \in DefaultKeys |->
        IF k = "pageCount" THEN doc.page_count
        ELSE dict_get(pdf_metadata, k, "")]

\* `k in requested_fields` for a list
in_list(k, items) == \E i \in 1..Len(items) : items[i] = k

\* the filter applied to all_metadata
filter_metadata(all, rf) ==
    IF Truthy(rf) /\ isinstance_list(rf)
    THEN [k \in {x \in DOMAIN all : in_list(x, rf.items)} |-> all[k]]
    ELSE all

\* doc.metadata, doc.page_count, doc.close(), then the filter
read_metadata(r, doc) ==
    /\ pc[r] = "OPENED"
    /\ docOpen' = [docOpen EXCEPT ![r] = FALSE]
    /\ loc' = [loc EXCEPT ![r].result =
                 [t |-> "dict",
                  v |-> filter_metadata(all_metadata(doc), loc[r].rf)]]
    /\ pc' = [pc EXCEPT ![r] = "CONVERTED"]
    /\ UNCHANGED <<req, resp, fs, calls, unlinks, created>>

\* doc.metadata or doc.page_count raises: doc.close() is skipped
read_metadata_raises(r, e) ==
    /\ pc[r] = "OPENED"
    /\ except_block(r, e)
    /\ UNCHANGED <<req, loc, calls, created, docOpen>>

\* the success envelope of an upload handler
upload_body(r) ==
    IF req[r].route = "/extract-metadata"
    THEN [success |-> TRUE, metadata |-> loc[r].result,
          filename |-> req[r].file.filename]
    ELSE [success |-> TRUE, markdown |-> loc[r].result,
          filename |-> req[r].file.filename]

\* os.unlink(input_path), then return jsonify({...}); unlink of a missing
\* file raises FileNotFoundError into the except block
upload_finish(r) ==
    /\ pc[r] = "CONVERTED"
    /\ req[r].route \in UploadRoutes
    /\ IF loc[r].tmp \in fs
       THEN /\ fs' = fs \ {loc[r].tmp}
            /\ unlinks' = [unlinks EXCEPT ![r] = @ + 1]
            /\ Respond(r, 200, upload_body(r))
       ELSE /\ unlinks' = [unlinks EXCEPT ![r] = @ + 1]
            /\ UNCHANGED fs
            /\ Respond(r, 500, [error |-> Text("No such file or directory")])
    /\ UNCHANGED <<req, loc, calls, created, docOpen>>

\* ------------------------------------------------------------------ path
\* convert_pdf_from_path up to the try block
path_validate(r) ==
    /\ pc[r] = "AUTHORIZED"
    /\ req[r].route = "/convert-path"
    /\ LET data == req[r].json IN
       IF data_falsy(data) \/ ~path_in(data)
       THEN Respond(r, 400, [error |-> Text("No path provided")])
       ELSE IF data.kind # "dict"
       THEN Unhandled(r)    \* data['path'] on a list: TypeError
       ELSE LET file_path == data.d["path"] IN
            IF file_path \notin fs
            THEN Respond(r, 404,
                         [error |-> FText("File not found: ", file_path)])
            ELSE IF ~IsPdfName(file_path)
            THEN Respond(r, 400,
                         [error |-> Text("Only PDF files are supported")])
            ELSE /\ pc' = [pc EXCEPT ![r] = "VALIDATED"]
                 /\ UNCHANGED resp
    /\ UNCHANGED <<req, loc, fs, calls, unlinks, created, docOpen>>

\* converter(file_path) returns
path_convert(r, m) ==
    /\ pc[r] = "VALIDATED"
    /\ req[r].route = "/convert-path"
    /\ calls' = [calls EXCEPT ![r] = @ + 1]
    /\ loc' = [loc EXCEPT ![r].result = [t |-> "str", v |-> m]]
    /\ pc' = [pc EXCEPT ![r] = "CONVERTED"]
    /\ UNCHANGED <<req, resp, fs, unlinks, created, docOpen>>

\* the upload handlers' cleanup pasted into the path handler
path_convert_raises_cleanup(r, e) ==
    /\ pc[r] = "VALIDATED"
    /\ req[r].route = "/convert-path"
    /\ calls' = [calls EXCEPT ![r] = @ + 1]
    /\ fs' = fs \ {req[r].json.d["path"]}
    /\ unlinks' = [unlinks EXCEPT ![r] = @ + 1]
    /\ Respond(r, 500, [error |-> Text(e)])
    /\ UNCHANGED <<req, loc, created, docOpen>>

\* ... or raises: the except block answers 500 and touches no file
path_convert_raises(r, e) ==
    /\ pc[r] = "VALIDATED"
    /\ req[r].route = "/convert-path"
    /\ calls' = [calls EXCEPT ![r] = @ + 1]
    /\ Respond(r, 500, [error |-> Text(e)])
    /\ UNCHANGED <<req, loc, fs, unlinks, created, docOpen>>

path_finish(r) ==
    /\ pc[r] = "CONVERTED"
    /\ req[r].route = "/convert-path"
    /\ Respond(r, 200, [success |-> TRUE, markdown |-> loc[r].result,
                        path |-> req[r].json.d["path"]])
    /\ UNCHANGED <<req, loc, fs, calls, unlinks, created, docOpen>>

\* ------------------------------------------------------------------ specs
\* One request at a time, any request a client can send: a deployment with
\* a single worker, the first slot.
Serial(r) == \A o \in Reqs : r <= o

Next ==
    \E r \in Reqs :
        \/ \E rt \in Routes : \E q \in RequestsTo(rt) : Serial(r) /\ Receive(r, q)
        \/ decorated(r)
        \/ upload_validate(r)
        \/ \E n \in TempNames : NamedTemporaryFile(r, n)
        \/ \E e \in ExcMsgs : NamedTemporaryFile_raises(r, e)
        \/ file_save(r)
        \/ \E e \in ExcMsgs : file_save_raises(r, e)
        \/ \E m \in Markdowns : to_markdown(r, m)
        \/ \E e \in ExcMsgs : to_markdown_raises(r, e)
        \/ fitz_open(r)
        \/ \E e \in ExcMsgs : fitz_open_raises(r, e)
        \/ \E doc \in Docs : read_metadata(r, doc)
        \/ \E e \in ExcMsgs : read_metadata_raises(r, e)
        \/ upload_finish(r)
        \/ path_validate(r)
        \/ \E m \in Markdowns : path_convert(r, m)
        \/ \E e \in ExcMsgs : path_convert_raises(r, e)
        \/ path_finish(r)

Spec == Init /\ [][Next]_vars

\* The steps of the handler a slot is running (everything but Receive).
Handle(r) ==
    \/ decorated(r)
    \/ upload_validate(r)
    \/ \E n \in TempNames : NamedTemporaryFile(r, n)
    \/ \E e \in ExcMsgs : NamedTemporaryFile_raises(r, e)
    \/ file_save(r)
    \/ \E e \in ExcMsgs : file_save_raises(r, e)
    \/ \E m \in Markdowns : to_markdown(r, m)
    \/ \E e \in ExcMsgs : to_markdown_raises(r, e)
    \/ fitz_open(r)
    \/ \E e \in ExcMsgs : fitz_open_raises(r, e)
    \/ \E doc \in Docs : read_metadata(r, doc)
    \/ \E e \in ExcMsgs : read_metadata_raises(r, e)
    \/ upload_finish(r)
    \/ path_validate(r)
    \/ \E m \in Markdowns : path_convert(r, m)
    \/ \E e \in ExcMsgs : path_convert_raises(r, e)
    \/ path_finish(r)

\* A handler is straight-line code on its own thread: once a request is
\* received its next step is taken, given that library calls return or raise.
FairSpec == Spec /\ \A r \in Reqs : WF_vars(Handle(r))

\* Concurrent uploads: every slot handles requests at the same time as the
\* others.  The requests are the valid uploads, one per upload route.
UploadRequests ==
    {[route |-> rt, key |-> Header(API_KEY(rt)), file |-> File(APdf),
      fields |-> NoField, json |-> JNone] : rt \in UploadRoutes}
ConcExc == {"cannot open broken document"}
ConcMarkdown == {"# Title"}
ConcDocs == {d \in Docs : ~d.isNone}

ConcNext ==
    \E r \in Reqs :
        \/ \E q \in UploadRequests : Receive(r, q)
        \/ decorated(r)
        \/ upload_validate(r)
        \/ \E n \in TempNames : NamedTemporaryFile(r, n)
        \/ \E e \in ConcExc : NamedTemporaryFile_raises(r, e)
        \/ file_save(r)
        \/ \E e \in ConcExc : file_save_raises(r, e)
        \/ \E m \in ConcMarkdown : to_markdown(r, m)
        \/ \E e \in ConcExc : to_markdown_raises(r, e)
        \/ fitz_open(r)
        \/ \E e \in ConcExc : fitz_open_raises(r, e)
        \/ \E doc \in ConcDocs : read_metadata(r, doc)
        \/ \E e \in ConcExc : read_metadata_raises(r, e)
        \/ upload_finish(r)

SpecConc == Init /\ [][ConcNext]_vars

\* ------------------------------------------------------------------ properties
\* Predicates on a request, stated apart from the handlers' code.
BadKey(r) ==
    \/ ~req[r].key.present
    \/ req[r].key.v = ""
    \/ req[r].key.v # API_KEY(req[r].route)
GoodKey(r) == ~BadKey(r)

HasPdfExt(s) ==
    /\ Len(s) >= 4
    /\ s[Len(s) - 3] = "."
    /\ s[Len(s) - 2] \in {"p", "P"}
    /\ s[Len(s) - 1] \in {"d", "D"}
    /\ s[Len(s)] \in {"f", "F"}

InvalidUpload(file) ==
    \/ ~file.present
    \/ file.filename = <<>>
    \/ ~HasPdfExt(file.filename)

IsUpload(r) == pc[r] # "idle" /\ req[r].route \in UploadRoutes
IsPath(r) == pc[r] # "idle" /\ req[r].route = "/convert-path"

\* C1: a request to a protected route whose X-API-Key is absent, empty or
\* not the configured key is answered 401 {error: "Invalid or missing API
\* key"}; for it the converter is never invoked, validation is never
\* reached and no temp file is created.
C1_Unauthorized ==
    \A r \in Reqs :
        (pc[r] # "idle" /\ BadKey(r)) =>
            /\ pc[r] \in {"RECEIVED", "ERROR_RESPONDED"}
            /\ calls[r] = 0
            /\ created[r] = {}
            /\ unlinks[r] = 0
            /\ pc[r] = "ERROR_RESPONDED" =>
                 /\ resp[r].status = 401
                 /\ resp[r].json
                 /\ resp[r].body =
                      [error |-> Text("Invalid or missing API key")]

\* a request carrying the other service's key has been answered
C1_Witness ==
    \E r \in Reqs :
        /\ pc[r] = "ERROR_RESPONDED"
        /\ req[r].route = "/convert"
        /\ req[r].key = Header("converter_secret_key")
        /\ resp[r].status = 401

\* C6: an upload request with a valid key that fails validation (no file,
\* empty filename, extension other than .pdf) is answered 400, with "Only
\* PDF files are supported" for the wrong extension; the converter is never
\* invoked and no temp file is created for it.
C6_InvalidUpload ==
    \A r \in Reqs :
        (IsUpload(r) /\ GoodKey(r) /\ InvalidUpload(req[r].file)) =>
            /\ pc[r] \in {"RECEIVED", "AUTHORIZED", "ERROR_RESPONDED"}
            /\ calls[r] = 0
            /\ created[r] = {}
            /\ pc[r] = "ERROR_RESPONDED" =>
                 /\ resp[r].status = 400
                 /\ resp[r].json
                 /\ "error" \in DOMAIN resp[r].body
                 /\ (req[r].file.present /\ req[r].file.filename # <<>>) =>
                      resp[r].body =
                        [error |-> Text("Only PDF files are supported")]

\* an upload named "pdf" (no dot) with a valid key has been refused
C6_Witness ==
    \E r \in Reqs :
        /\ pc[r] = "ERROR_RESPONDED"
        /\ GoodKey(r)
        /\ req[r].route \in UploadRoutes
        /\ req[r].file = File(Pdf)
        /\ resp[r].status = 400

\* C7: no step of a /convert-path request creates, deletes or modifies a
\* file: the files on disk are the same after each of its steps, whether
\* it ends in success or in an error.
C7_PathLeavesFiles ==
    [][\A r \in Reqs :
         (IsPath(r) /\ pc[r] \in InFlight /\ pc'[r] # pc[r]) =>
            /\ fs' = fs
            /\ created'[r] = {}
            /\ unlinks'[r] = 0]_vars

\* a /convert-path request whose conversion raised has been answered 500
\* and its file is still there
C7_Witness ==
    \E r \in Reqs :
        /\ IsPath(r)
        /\ pc[r] = "ERROR_RESPONDED"
        /\ resp[r].status = 500
        /\ calls[r] = 1
        /\ req[r].json.d["path"] \in fs

\* C2: on every exit path of an upload request after its temp file was
\* created (success, an exception while saving the upload, an exception
\* during conversion) the temp file is gone when the response is returned
\* and was unlinked exactly once.
C2_TempRemovedOnce ==
    \A r \in Reqs :
        (IsUpload(r) /\ pc[r] \in Terminal /\ created[r] # {}) =>
            /\ created[r] \cap fs = {}
            /\ unlinks[r] = 1

\* the two envelopes of a response
SuccessEnvelope(rs) ==
    /\ rs.status = 200
    /\ rs.json
    /\ "success" \in DOMAIN rs.body
    /\ rs.body.success = TRUE
    /\ \/ "markdown" \in DOMAIN rs.body /\ rs.body.markdown.t = "str"
       \/ "metadata" \in DOMAIN rs.body /\ rs.body.metadata.t = "dict"
    /\ \/ "filename" \in DOMAIN rs.body
       \/ "path" \in DOMAIN rs.body
    /\ "error" \notin DOMAIN rs.body

ErrorEnvelope(rs) ==
    /\ rs.status \in {400, 401, 404, 500}
    /\ rs.json
    /\ "error" \in DOMAIN rs.body
    /\ ~TextEmpty(rs.body.error)
    /\ DOMAIN rs.body \cap {"success", "markdown", "metadata"} = {}

\* C3: every response of a protected route is a success envelope (200,
\* success = true, a non-null payload, filename or path, no error) or an
\* error envelope (400/401/404/500, JSON with a non-empty error string, no
\* success, no payload), whatever the cause of the failure.
C3_Envelope ==
    \A r \in Reqs :
        pc[r] \in Terminal =>
            SuccessEnvelope(resp[r]) \/ ErrorEnvelope(resp[r])

\* `fields` is present and its text is a JSON list; the keys it lists
ParsesAsList(fields) ==
    /\ fields.present
    /\ fields.toks # <<>>
    /\ json_loads(fields.toks).ok
    /\ json_loads(fields.toks).val.t = "list"

ListedKeys(fields) ==
    LET L == json_loads(fields.toks).val.items IN
    {k \in DefaultKeys : \E i \in 1..Len(L) : L[i] = k}

\* C4: the keys of the metadata of a successful /extract-metadata response
\* are the default keys that occur in L when `fields` parses as a JSON list
\* L of any length (the empty list included), and all ten default keys when
\* `fields` is absent, unparsable or not a list.
C4_FieldFilter ==
    \A r \in Reqs :
        (pc[r] = "RESPONDED" /\ req[r].route = "/extract-metadata") =>
            DOMAIN resp[r].body.metadata.v =
                IF ParsesAsList(req[r].fields)
                THEN ListedKeys(req[r].fields)
                ELSE DefaultKeys

\* the body is no JSON object, or an object without `path`
NoPathGiven(data) == data.kind # "dict" \/ "path" \notin DOMAIN data.d

\* C5: a /convert-path request with a valid key is answered 400 when the
\* body holds no JSON object or no `path` key, 404 when the path does not
\* exist (whatever its extension), 400 when it exists and does not end in
\* .pdf; the converter is not invoked in any of the three cases.
C5_PathRejects ==
    \A r \in Reqs :
        (IsPath(r) /\ GoodKey(r) /\ pc[r] \in Terminal) =>
            LET data == req[r].json IN
            IF NoPathGiven(data)
            THEN resp[r].status = 400 /\ calls[r] = 0
            ELSE IF data.d["path"] \notin fs
            THEN resp[r].status = 404 /\ calls[r] = 0
            ELSE IF ~HasPdfExt(data.d["path"])
            THEN resp[r].status = 400 /\ calls[r] = 0
            ELSE TRUE

\* C10: in /extract-metadata a document that was opened is closed before
\* the response is returned, on the success path and on every error path.
C10_DocClosed ==
    \A r \in Reqs : pc[r] \in Terminal => ~docOpen[r]

\* the lifecycle state a handler position belongs to, and the moves of the
\* lifecycle
Lifecycle(p) ==
    CASE p = "CREATED" -> "VALIDATED"
      [] p = "OPENED" -> "STORED"
      [] OTHER -> p

LifecycleEdges(rt) ==
    {<<a, "RECEIVED">> : a \in {"idle"} \cup Terminal}
      \cup {<<"RECEIVED", "AUTHORIZED">>, <<"AUTHORIZED", "VALIDATED">>,
            <<"CONVERTED", "RESPONDED">>}
      \cup (IF rt = "/convert-path"
            THEN {<<"VALIDATED", "CONVERTED">>}
            ELSE {<<"VALIDATED", "STORED">>, <<"STORED", "CONVERTED">>})
      \cup {<<a, "ERROR_RESPONDED">> :
              a \in {"RECEIVED", "AUTHORIZED", "VALIDATED", "STORED",
                     "CONVERTED"}}

\* the request passes the validation of its route
ValidInput(r) ==
    IF req[r].route = "/convert-path"
    THEN /\ ~NoPathGiven(req[r].json)
         /\ req[r].json.d["path"] \in fs
         /\ HasPdfExt(req[r].json.d["path"])
    ELSE ~InvalidUpload(req[r].file)

\* the converter is invoked at most once and, like the creation of a temp
\* file, only for an authorized and valid request; a response is there
\* exactly in the two terminal states
C8_Order ==
    \A r \in Reqs :
        /\ calls[r] <= 1
        /\ (calls[r] = 1 \/ created[r] # {}) =>
              /\ GoodKey(r)
              /\ ValidInput(r)
              /\ pc[r] \notin {"RECEIVED", "AUTHORIZED"}
        /\ created[r] # {} => req[r].route \in UploadRoutes
        /\ pc[r] = "RESPONDED" => calls[r] = 1 /\ resp[r].status = 200
        /\ pc[r] = "ERROR_RESPONDED" => resp[r].status # 200
        /\ pc[r] \in InFlight => resp[r] = NoResponse

\* C8: every request runs RECEIVED -> AUTHORIZED -> VALIDATED -> [STORED,
\* uploads only] -> CONVERTED -> RESPONDED; the converter is invoked at most
\* once and only after authorization and validation passed, a temp file is
\* created only after validation passed, a failure goes straight to the
\* terminal ERROR_RESPONDED, and every received request is answered.
\* CREATED (temp file made, upload not yet saved) is part of VALIDATED and
\* OPENED (document open, metadata not yet read) is part of STORED.
C8_Lifecycle ==
    /\ []C8_Order
    /\ [][\A r \in Reqs :
            Lifecycle(pc'[r]) # Lifecycle(pc[r]) =>
               <<Lifecycle(pc[r]), Lifecycle(pc'[r])>>
                   \in LifecycleEdges(req'[r].route)]_vars
    /\ \A r \in Reqs : (pc[r] = "RECEIVED") ~> (pc[r] \in Terminal)

\* an upload went through validation, storage and a conversion that raised,
\* and was answered after its temp file was removed
C8_Witness ==
    \E r \in Reqs :
        /\ IsUpload(r)
        /\ pc[r] = "ERROR_RESPONDED"
        /\ calls[r] = 1
        /\ created[r] # {}
        /\ unlinks[r] = 1

\* the request has a temp file it has not yet removed
Holding(r) == pc[r] \in {"CREATED", "STORED", "OPENED", "CONVERTED"}

C9_Private ==
    \A r \in Reqs :
        Holding(r) =>
            /\ loc[r].tmp \in fs
            /\ created[r] = {loc[r].tmp}
            /\ \A o \in Reqs \ {r} : Holding(o) => loc[o].tmp # loc[r].tmp

\* C9: under any interleaving of concurrent uploads no two requests in
\* flight hold the same temp path, a request reads and deletes only the
\* temp file it created, and no cleanup removes a temp file another
\* request in flight still needs.
C9_PrivateTemp ==
    /\ []C9_Private
    /\ [][\A r \in Reqs :
            unlinks'[r] > unlinks[r] =>
               /\ fs \ fs' \subseteq created[r]
               /\ \A o \in Reqs \ {r} :
                     Holding(o) => loc[o].tmp \notin fs \ fs']_vars

\* one upload has removed its temp file after a failure while another
\* upload, still in flight, holds its own
C9_Witness ==
    \E r, o \in Reqs :
        /\ r # o
        /\ pc[r] = "STORED"
        /\ pc[o] = "ERROR_RESPONDED"
        /\ unlinks[o] = 1
        /\ loc[r].tmp \in fs
====
